---------------------------- MODULE Spec2Model ----------------------------
(***************************************************************************)
(* Rides-to-Rally backend (src/app): users, vehicles, rides and the        *)
(* seat-reservation handler, over a PostgreSQL store at its default        *)
(* isolation level READ COMMITTED.  Every statement sees the rows          *)
(* committed before it starts; SELECT ... FOR UPDATE blocks while another  *)
(* open transaction holds the row lock, and the lock is kept until that    *)
(* transaction commits or rolls back.                                      *)
(*                                                                         *)
(* Opaque text columns (name, origin, notes, ...) take no part in any     *)
(* decision of the handlers and are left out of the rows; nickname stands  *)
(* for the nullable profile columns.  The vehicle and reservation         *)
(* handlers of the in-memory variant (src/main.py) are modelled beside     *)
(* them, on its own dictionaries.                                          *)
(***************************************************************************)
EXTENDS Integers, Sequences, FiniteSets, TLC

\* ------------------------------------------------------------- bounds
MaxUsers == 3      \* distinct e-mail addresses that ever authenticate
MaxVehicles == 2   \* vehicle rows
MaxSeats == 2      \* largest seats_total a client sends
MaxReq == 3        \* reserve requests issued

Emails == 1..MaxUsers
\* RideCreate.seats_total is a plain int: the payload may carry zero or a
\* negative number as well.
SeatInputs == (0 - 1)..MaxSeats
\* Instants, on the clock and in a payload.  The handlers only compare
\* them: two instants give every order of a departure time and the clock.
Times == {0, 1}
\* RideCreate.departure_time as the payload parser delivers it: an instant,
\* timezone-aware when the text carries an offset ("...Z", "+02:00") and
\* naive when it carries none.
DepartureInputs == [t : Times, aware : BOOLEAN]

\* Outcomes of reserve (the HTTP responses of src/app/main.py:229-262).
Success == "Success"
NotFound == "NotFound"
SelfReservationRejected == "SelfReservationRejected"
RideFull == "RideFull"
DuplicateReservation == "DuplicateReservation"
Pending == "Pending"

VARIABLES
  users,         \* table user: sequence, id = index; [email, role, nickname, owns_car]
  vehicles,      \* table vehicle: sequence, id = index; [owner_id, license_plate]
  rides,         \* table ride: sequence, id = index
  reservations,  \* table reservation: set of committed rows [id, ride_id, rider_id, status, cancelled_at]
  res_seq,       \* the reservation id sequence (last value handed out)
  lock,          \* ride id -> request whose transaction holds the row lock, 0 = none
  reqs,          \* reserve requests, in order of arrival
  lockOrder,     \* history: ride id -> requests in the order they got the row lock
  listing,       \* the list_rides request in progress / its last response
  resp,          \* the last response of a user, vehicle or ride-creation handler
  authq,         \* get_current_user_id calls in progress or finished
  mem            \* the dictionaries of the in-memory variant (src/main.py)

vars == <<users, vehicles, rides, reservations, res_seq, lock, reqs, lockOrder, listing, resp, authq, mem>>

\* Ride ids a request may name.  One ride row is created: the row lock, the
\* seat count and the unique key are all per ride, so reservations on
\* different rides share no state (with RideIds == {1, 2} the formulas below
\* hold as well, over some two million states).
RideIds == {1}
RideExists(rid) == rid \in 1..Len(rides)

\* ------------------------------------------------------ identity (auth.py)
\* get_current_user_id: look the user up by e-mail, insert it with the
\* defaults when there is none.  Returns the table after the call.
UserIdOf(tbl, e) == CHOOSE i \in 1..Len(tbl) : tbl[i].email = e

KnownEmail(tbl, e) == \E i \in 1..Len(tbl) : tbl[i].email = e

\* The row get_current_user_id inserts for an unknown e-mail; nickname
\* "null" is SQL NULL.
NewUser(e) ==
  [email |-> e, role |-> "RIDER", nickname |-> "null", owns_car |-> FALSE]

\* get_current_user_id run without another request in between.  Row ids
\* are only ever compared for equality, so the table is kept as a sequence
\* with id = index (a value the id sequence skipped renumbers nothing any
\* handler can observe).
Provisioned(e) ==
  IF KnownEmail(users, e) THEN users
  ELSE Append(users, NewUser(e))

\* E-mail addresses are interchangeable: a fresh address is taken to be the
\* smallest unused one, so user ids follow the e-mail numbering.
Callers == {e \in Emails : e <= Len(users) + 1}

\* ---------------------------------------------------------- the store
\* A count that filters on another status than the one reserve writes.
CountOfOtherStatus(rid) ==
  Cardinality({r \in reservations : r.ride_id = rid /\ r.status = "CANCELLED"})

\* count(reservation.id) where ride_id = rid and status = 'CONFIRMED'
ConfirmedCount(rid) ==
  Cardinality({r \in reservations : r.ride_id = rid /\ r.status = "CONFIRMED"})

\* A table without the unique constraint.
NoUniqueConstraint(rid, uid) == FALSE

\* UniqueConstraint("ride_id", "rider_id") on a row about to be inserted.
UniqueViolation(rid, uid) ==
  \E r \in reservations : r.ride_id = rid /\ r.rider_id = uid

\* One lock for the whole ride table: any locked ride row blocks the read.
GlobalLock(rid) == \A r \in DOMAIN lock : lock[r] = 0

\* A plain SELECT, without with_for_update(): it never waits.
NoRowLock(rid) == TRUE

\* SELECT ... FOR UPDATE on the ride row returns only once no other
\* transaction holds the row lock.
LockFree(rid) == lock[rid] = 0

\* ------------------------------------------------------------- Init
\* No user, vehicle or ride-creation request has been answered yet.
NoResponse == [status |-> "none", body |-> <<>>]

\* The module-level dicts of src/main.py at import: all empty, every
\* counter of _next_ids at 1.  calls and rcalls are the create_vehicle and
\* reserve calls made so far; listed is the last list_vehicles call: who
\* sent it and what it returned.
MemEmpty ==
  [next_vehicle |-> 1,
   vehicles |-> {},
   calls |-> <<>>,
   listed |-> [caller |-> 0, out |-> {}],
   rides |-> <<>>,
   next_reservation |-> 1,
   reservations |-> {},
   rcalls |-> <<>>]

\* The store right after init_db on an empty database.
InitEmpty ==
  /\ users = <<>>
  /\ vehicles = <<>>
  /\ rides = <<>>
  /\ reservations = {}
  /\ res_seq = 0
  /\ lock = [rid \in RideIds |-> 0]
  /\ reqs = <<>>
  /\ lockOrder = [rid \in RideIds |-> <<>>]
  /\ listing = [pc |-> "idle", n |-> 0, out |-> <<>>]
  /\ resp = NoResponse
  /\ authq = <<>>
  /\ mem = MemEmpty

\* The store the reservation engine is studied from: user 1 has
\* authenticated, set owns_car and registered a vehicle; no ride exists
\* yet.  SpecStore reaches this state from InitEmpty (see InitStoreUnreached).
Init ==
  /\ users = <<[NewUser(1) EXCEPT !.owns_car = TRUE]>>
  /\ vehicles = <<[owner_id |-> 1, license_plate |-> "null"]>>
  /\ rides = <<>>
  /\ reservations = {}
  /\ res_seq = 0
  /\ lock = [rid \in RideIds |-> 0]
  /\ reqs = <<>>
  /\ lockOrder = [rid \in RideIds |-> <<>>]
  /\ listing = [pc |-> "idle", n |-> 0, out |-> <<>>]
  /\ resp = NoResponse
  /\ authq = <<>>
  /\ mem = MemEmpty

\* ------------------------------------------------------------- users
\* get_current_user_id, statement by statement.  A call arrives with the
\* e-mail of its token; prior is history: the calls that had returned
\* when this one arrived.
auth_arrive(e) ==
  /\ Len(authq) < MaxReq
  /\ authq' = Append(authq,
                [email |-> e, pc |-> "select", id |-> 0, error |-> "none",
                 prior |-> {k \in 1..Len(authq) : authq[k].pc = "done"}])
  /\ UNCHANGED <<users, vehicles, rides, reservations, res_seq, lock, reqs, lockOrder, listing, resp, mem>>

\* The lookup left out: every call goes on to insert.
auth_select_blind(i) ==
  /\ authq[i].pc = "select"
  /\ authq' = [authq EXCEPT ![i].pc = "insert"]
  /\ UNCHANGED <<users, vehicles, rides, reservations, res_seq, lock, reqs, lockOrder, listing, resp, mem>>

\* SELECT user WHERE email = :email; a row found is returned as it is.
auth_select(i) ==
  /\ authq[i].pc = "select"
  /\ authq' = IF KnownEmail(users, authq[i].email)
              THEN [authq EXCEPT ![i].pc = "done",
                                 ![i].id = UserIdOf(users, authq[i].email)]
              ELSE [authq EXCEPT ![i].pc = "insert"]
  /\ UNCHANGED <<users, vehicles, rides, reservations, res_seq, lock, reqs, lockOrder, listing, resp, mem>>

\* session.add(user); session.commit(); session.refresh(user).  The commit
\* is not inside a try: when a row with the e-mail has been committed since
\* the lookup, the unique constraint refuses the insert and the
\* IntegrityError leaves the call as an internal error.
auth_insert(i) ==
  /\ authq[i].pc = "insert"
  /\ IF KnownEmail(users, authq[i].email)
     THEN /\ users' = users
          /\ authq' = [authq EXCEPT ![i].pc = "done",
                                    ![i].error = "500 IntegrityError"]
     ELSE /\ users' = Append(users, NewUser(authq[i].email))
          /\ authq' = [authq EXCEPT ![i].pc = "done", ![i].id = Len(users) + 1]
  /\ UNCHANGED <<vehicles, rides, reservations, res_seq, lock, reqs, lockOrder, listing, resp, mem>>

\* PATCH /api/users/{user_id}.  A payload field is "unset" when the request
\* body leaves it out, "null" when it carries an explicit null, otherwise
\* the value sent.
OwnsCarPatches == {"unset", "true", "false", "null"}
NicknamePatches == {"unset", "null", "nick"}
UserPayloads == [nickname : NicknamePatches, owns_car : OwnsCarPatches]

\* Payloads that carry at most the owns_car field.
OwnsCarPayloads == [nickname : {"unset"}, owns_car : OwnsCarPatches]

user_to_dict(row, id) ==
  [id |-> id, email |-> row.email, role |-> row.role,
   nickname |-> row.nickname, owns_car |-> row.owns_car]

\* setattr(user, k, v) for every field of model_dump(exclude_unset=True).
Patched(row, payload) ==
  [row EXCEPT !.nickname = IF payload.nickname = "unset" THEN @
                           ELSE payload.nickname,
              !.owns_car = IF payload.owns_car = "unset" THEN @
                           ELSE payload.owns_car = "true"]

\* The caller's own row always exists (get_current_user_id has returned
\* its id), so the 404 branch is not taken.  user.owns_car is a NOT NULL
\* column: an explicit null makes the UPDATE fail at commit with an
\* IntegrityError nobody catches, and the row stays as it was.
update_user(e, user_id, payload) ==
  LET tbl == Provisioned(e)
      current_id == UserIdOf(tbl, e)
      status == IF current_id # user_id THEN "403"
                ELSE IF payload.owns_car = "null" THEN "500 IntegrityError"
                ELSE "200"
      after == IF status = "200"
               THEN [tbl EXCEPT ![user_id] = Patched(@, payload)]
               ELSE tbl
  IN /\ users' = after
     /\ resp' = [status |-> status,
                 body |-> IF status = "200"
                          THEN <<user_to_dict(after[user_id], user_id)>>
                          ELSE <<>>]
     /\ UNCHANGED <<vehicles, rides, reservations, res_seq, lock, reqs, lockOrder, listing, authq, mem>>

\* ----------------------------------------------------------- vehicles
\* VehicleCreate.license_plate: "null" is a payload without a plate.
PlateInputs == {"null", "p1"}

vehicle_to_dict(v) ==
  [id |-> v, owner_id |-> vehicles[v].owner_id,
   license_plate |-> vehicles[v].license_plate]

\* No constraint on the vehicle table.
NoPlateConstraint(user_id, plate) == FALSE

\* UniqueConstraint("owner_id", "license_plate"): the insert is refused
\* when the owner has a row with the same plate.  SQL NULLs are distinct
\* from each other, so a row without a plate never conflicts.
PlateTaken(user_id, plate) ==
  /\ plate # "null"
  /\ \E v \in 1..Len(vehicles) : /\ vehicles[v].owner_id = user_id
                                  /\ vehicles[v].license_plate = plate

\* POST /api/vehicles.  The commit is not inside a try: a refused insert
\* ends the request with the IntegrityError (HTTP 500) and no row.  The
\* bound on the table applies to inserts only.
create_vehicle(e, plate) ==
  LET tbl == Provisioned(e)
      user_id == UserIdOf(tbl, e)
  IN /\ users' = tbl
     /\ IF PlateTaken(user_id, plate)
        THEN /\ vehicles' = vehicles
             /\ resp' = [status |-> "500 IntegrityError", body |-> <<>>]
        ELSE /\ Len(vehicles) < MaxVehicles
             /\ vehicles' = Append(vehicles, [owner_id |-> user_id,
                                              license_plate |-> plate])
             /\ resp' = [status |-> "201",
                         body |-> <<[id |-> Len(vehicles) + 1,
                                     owner_id |-> user_id,
                                     license_plate |-> plate]>>]
     /\ UNCHANGED <<rides, reservations, res_seq, lock, reqs, lockOrder, listing, authq, mem>>

\* The first n rows of the table that user_id owns, as dicts.
RECURSIVE DictsOfOwner(_, _)
DictsOfOwner(n, user_id) ==
  IF n = 0 THEN <<>>
  ELSE IF vehicles[n].owner_id = user_id
       THEN Append(DictsOfOwner(n - 1, user_id), vehicle_to_dict(n))
       ELSE DictsOfOwner(n - 1, user_id)

\* GET /api/vehicles: one SELECT ... WHERE owner_id = user_id.  The rows
\* come back in no particular order; body lists them in table order.
list_vehicles(e) ==
  LET tbl == Provisioned(e)
      user_id == UserIdOf(tbl, e)
  IN /\ users' = tbl
     /\ resp' = [status |-> "200",
                 body |-> DictsOfOwner(Len(vehicles), user_id)]
     /\ UNCHANGED <<vehicles, rides, reservations, res_seq, lock, reqs, lockOrder, listing, authq, mem>>

\* ------------------------------------------- vehicles, in-memory variant
\* src/main.py keeps its data in module-level dicts; its handlers are plain
\* functions, which the server runs on worker threads.  _vehicles is kept
\* as the set of its values (each carries its id, the dict key).
\* POST /api/vehicles: owner_id is the X-User-Id header, any integer.
mem_create_vehicle(owner_id, plate_number) ==
  /\ Len(mem.calls) < MaxVehicles
  /\ mem' = [mem EXCEPT !.calls = Append(@, [owner_id |-> owner_id,
                                            plate_number |-> plate_number,
                                            pc |-> "load", tmp |-> 0,
                                            vid |-> 0])]
  /\ UNCHANGED <<users, vehicles, rides, reservations, res_seq, lock, reqs, lockOrder, listing, resp, authq>>

\* _next, first statement: _next_ids[kind] += 1, a read of the shared
\* counter ...
mem_next_load(k) ==
  /\ mem.calls[k].pc = "load"
  /\ mem' = [mem EXCEPT !.calls[k].tmp = mem.next_vehicle,
                        !.calls[k].pc = "incr"]
  /\ UNCHANGED <<users, vehicles, rides, reservations, res_seq, lock, reqs, lockOrder, listing, resp, authq>>

\* ... followed by the write of the value read plus one.
mem_next_store(k) ==
  /\ mem.calls[k].pc = "incr"
  /\ mem' = [mem EXCEPT !.next_vehicle = mem.calls[k].tmp + 1,
                        !.calls[k].pc = "read"]
  /\ UNCHANGED <<users, vehicles, rides, reservations, res_seq, lock, reqs, lockOrder, listing, resp, authq>>

\* _next, second statement: return _next_ids[kind] - 1, read again from
\* the shared dict.
mem_next_return(k) ==
  /\ mem.calls[k].pc = "read"
  /\ mem' = [mem EXCEPT !.calls[k].vid = mem.next_vehicle - 1,
                        !.calls[k].pc = "store"]
  /\ UNCHANGED <<users, vehicles, rides, reservations, res_seq, lock, reqs, lockOrder, listing, resp, authq>>

\* _vehicles[vid] = vehicle; return vehicle.  An entry already under vid
\* is replaced.
mem_store_vehicle(k) ==
  LET c == mem.calls[k]
      vehicle == [id |-> c.vid, owner_id |-> c.owner_id,
                  plate_number |-> c.plate_number]
  IN /\ c.pc = "store"
     /\ mem' = [mem EXCEPT
                  !.vehicles = {v \in @ : v.id # c.vid} \cup {vehicle},
                  !.calls[k].pc = "done"]
     /\ UNCHANGED <<users, vehicles, rides, reservations, res_seq, lock, reqs, lockOrder, listing, resp, authq>>

\* GET /api/vehicles: list(_vehicles.values()).  The handler takes no
\* request and reads no header; caller is the user who sent it.
mem_list_vehicles(caller) ==
  /\ mem' = [mem EXCEPT !.listed = [caller |-> caller, out |-> mem.vehicles]]
  /\ UNCHANGED <<users, vehicles, rides, reservations, res_seq, lock, reqs, lockOrder, listing, resp, authq>>

\* --------------------------------------- reservations, in-memory variant
\* POST /api/reservations of src/main.py, statement by statement; no lock
\* is taken anywhere.  rider_id is the X-User-Id header.
mem_reserve(rider_id, ride_id) ==
  /\ Len(mem.rcalls) < MaxReq
  /\ mem' = [mem EXCEPT !.rcalls = Append(@, [rider_id |-> rider_id,
                                             ride_id |-> ride_id,
                                             pc |-> "check", tmp |-> 0,
                                             res_id |-> 0,
                                             outcome |-> Pending])]
  /\ UNCHANGED <<users, vehicles, rides, reservations, res_seq, lock, reqs, lockOrder, listing, resp, authq>>

\* ride = _rides.get(ride_id): 404 without one; 400 when seats_taken has
\* reached seats_total.
mem_reserve_check(k) ==
  LET c == mem.rcalls[k]
      out == IF c.ride_id \notin 1..Len(mem.rides) THEN NotFound
             ELSE IF mem.rides[c.ride_id].seats_taken
                       >= mem.rides[c.ride_id].seats_total THEN RideFull
             ELSE "pass"
  IN /\ c.pc = "check"
     /\ mem' = IF out = "pass"
               THEN [mem EXCEPT !.rcalls[k].pc = "seat_load"]
               ELSE [mem EXCEPT !.rcalls[k].pc = "done",
                                !.rcalls[k].outcome = out]
     /\ UNCHANGED <<users, vehicles, rides, reservations, res_seq, lock, reqs, lockOrder, listing, resp, authq>>

\* ride["seats_taken"] += 1: the read ...
mem_seat_load(k) ==
  LET c == mem.rcalls[k]
  IN /\ c.pc = "seat_load"
     /\ mem' = [mem EXCEPT !.rcalls[k].tmp = mem.rides[c.ride_id].seats_taken,
                           !.rcalls[k].pc = "seat_store"]
     /\ UNCHANGED <<users, vehicles, rides, reservations, res_seq, lock, reqs, lockOrder, listing, resp, authq>>

\* ... and the write of the value read plus one.
mem_seat_store(k) ==
  LET c == mem.rcalls[k]
  IN /\ c.pc = "seat_store"
     /\ mem' = [mem EXCEPT !.rides[c.ride_id].seats_taken = c.tmp + 1,
                           !.rcalls[k].pc = "next_load"]
     /\ UNCHANGED <<users, vehicles, rides, reservations, res_seq, lock, reqs, lockOrder, listing, resp, authq>>

\* _next("reservation"): _next_ids[kind] += 1, read ...
mem_res_next_load(k) ==
  /\ mem.rcalls[k].pc = "next_load"
  /\ mem' = [mem EXCEPT !.rcalls[k].tmp = mem.next_reservation,
                        !.rcalls[k].pc = "next_store"]
  /\ UNCHANGED <<users, vehicles, rides, reservations, res_seq, lock, reqs, lockOrder, listing, resp, authq>>

\* ... and write;
mem_res_next_store(k) ==
  /\ mem.rcalls[k].pc = "next_store"
  /\ mem' = [mem EXCEPT !.next_reservation = mem.rcalls[k].tmp + 1,
                        !.rcalls[k].pc = "next_return"]
  /\ UNCHANGED <<users, vehicles, rides, reservations, res_seq, lock, reqs, lockOrder, listing, resp, authq>>

\* return _next_ids[kind] - 1.
mem_res_next_return(k) ==
  /\ mem.rcalls[k].pc = "next_return"
  /\ mem' = [mem EXCEPT !.rcalls[k].res_id = mem.next_reservation - 1,
                        !.rcalls[k].pc = "insert"]
  /\ UNCHANGED <<users, vehicles, rides, reservations, res_seq, lock, reqs, lockOrder, listing, resp, authq>>

\* _reservations[res_id] = res; return res.  An entry already under
\* res_id is replaced.
mem_reserve_insert(k) ==
  LET c == mem.rcalls[k]
      res == [id |-> c.res_id, ride_id |-> c.ride_id, rider_id |-> c.rider_id,
              status |-> "CONFIRMED"]
  IN /\ c.pc = "insert"
     /\ mem' = [mem EXCEPT
                  !.reservations = {r \in @ : r.id # c.res_id} \cup {res},
                  !.rcalls[k].pc = "done",
                  !.rcalls[k].outcome = Success]
     /\ UNCHANGED <<users, vehicles, rides, reservations, res_seq, lock, reqs, lockOrder, listing, resp, authq>>

\* -------------------------------------------------------------- rides
\* Every vehicle row, whoever owns it.
AllVehicles(user_id) == 1..Len(vehicles)

\* SELECT vehicle WHERE owner_id = user_id.  The statement has no ORDER BY,
\* so my_vehicles[0] is any of these rows.
MyVehicles(user_id) == {v \in 1..Len(vehicles) : vehicles[v].owner_id = user_id}

\* The response of create_ride before any insert, "ok" when it inserts.
\* now is datetime.utcnow(), a naive instant: comparing a timezone-aware
\* departure_time with it raises TypeError, which no handler catches.
CreateRideCheck(host, departure_time, now) ==
  IF ~host.owns_car THEN "400 own a car"
  ELSE IF MyVehicles(host.id) = {} THEN "400 add your car"
  ELSE IF departure_time.aware THEN "500 TypeError"
  ELSE IF departure_time.t < now THEN "400 departure in the past"
  ELSE "ok"

create_ride(e, departure_time, seats_total, now) ==
  LET tbl == Provisioned(e)
      user_id == UserIdOf(tbl, e)
      host == [id |-> user_id, owns_car |-> tbl[user_id].owns_car]
  IN /\ Len(rides) < Cardinality(RideIds)
     /\ users' = tbl
     /\ resp' = [status |-> CreateRideCheck(host, departure_time, now),
                 body |-> <<>>]
     /\ IF CreateRideCheck(host, departure_time, now) = "ok"
        THEN \E veh \in MyVehicles(user_id) :
               rides' = Append(rides, [host_id |-> user_id,
                                       vehicle_id |-> veh,
                                       departure_time |-> departure_time.t,
                                       seats_total |-> seats_total])
        ELSE rides' = rides
     /\ UNCHANGED <<vehicles, reservations, res_seq, lock, reqs, lockOrder, listing, authq, mem>>

\* -------------------------------------------------------- reservations
\* A reserve request arrives: its identity is resolved, then it stands at
\* the SELECT ... FOR UPDATE.
reserve_arrive(e, rid) ==
  LET tbl == Provisioned(e)
  IN /\ Len(reqs) < MaxReq
     /\ users' = tbl
     /\ reqs' = Append(reqs, [caller |-> UserIdOf(tbl, e), ride_id |-> rid,
                              pc |-> "lock", taken |-> <<>>,
                              outcome |-> Pending])
     /\ UNCHANGED <<vehicles, rides, reservations, res_seq, lock, lockOrder, listing, resp, authq, mem>>

Finish(i, out) == [reqs EXCEPT ![i].pc = "done", ![i].outcome = out]

\* SELECT ride ... FOR UPDATE; 404 when there is no such row.
reserve_lock(i) ==
  LET rid == reqs[i].ride_id
  IN /\ reqs[i].pc = "lock"
     /\ IF ~RideExists(rid)
        THEN /\ reqs' = Finish(i, NotFound)
             /\ UNCHANGED <<lock, lockOrder>>
        ELSE /\ LockFree(rid)
             /\ lock' = [lock EXCEPT ![rid] = i]
             /\ lockOrder' = [lockOrder EXCEPT ![rid] = Append(@, i)]
             /\ reqs' = [reqs EXCEPT ![i].pc = "check"]
     /\ UNCHANGED <<users, vehicles, rides, reservations, res_seq, listing, resp, authq, mem>>

\* The full check ahead of the host check.
CheckOutcomeFullFirst(ride, user_id, taken) ==
  IF taken >= ride.seats_total THEN RideFull
  ELSE IF ride.host_id = user_id THEN SelfReservationRejected
  ELSE "pass"

\* No host check.
CheckOutcomeNoHostCheck(ride, user_id, taken) ==
  IF taken >= ride.seats_total THEN RideFull
  ELSE "pass"

\* The full check off by one (> for >=).
CheckOutcomeOffByOne(ride, user_id, taken) ==
  IF ride.host_id = user_id THEN SelfReservationRejected
  ELSE IF taken > ride.seats_total THEN RideFull
  ELSE "pass"

\* The checks between the locked read and the insert: the rejection they
\* raise, "pass" when they raise none.
CheckOutcome(ride, user_id, taken) ==
  IF ride.host_id = user_id THEN SelfReservationRejected
  ELSE IF taken >= ride.seats_total THEN RideFull
  ELSE "pass"

\* Host check, seat count, full check; taken records the count once it is
\* read (the host is rejected before the count query runs).  A rejection
\* here is raised with the transaction still open: the session is neither
\* closed nor rolled back, so the row lock stays with it (session_reclaim).
reserve_check(i) ==
  LET rid == reqs[i].ride_id
      taken == ConfirmedCount(rid)
      out == CheckOutcome(rides[rid], reqs[i].caller, taken)
      seen == IF out = SelfReservationRejected THEN <<>> ELSE <<taken>>
  IN /\ reqs[i].pc = "check"
     /\ reqs' = IF out = "pass"
                THEN [reqs EXCEPT ![i].pc = "insert", ![i].taken = seen]
                ELSE [Finish(i, out) EXCEPT ![i].taken = seen]
     /\ UNCHANGED <<users, vehicles, rides, reservations, res_seq, lock, lockOrder, listing, resp, authq, mem>>

\* The insert without the try/except: the violation propagates as an
\* internal error and nothing rolls the transaction back.
reserve_insert_unhandled(i) ==
  LET rid == reqs[i].ride_id
      uid == reqs[i].caller
  IN /\ reqs[i].pc = "insert"
     /\ res_seq' = res_seq + 1
     /\ IF UniqueViolation(rid, uid)
        THEN /\ reservations' = reservations
             /\ reqs' = Finish(i, "InternalError")
             /\ lock' = lock
        ELSE /\ reservations' = reservations \cup
                  {[id |-> res_seq + 1, ride_id |-> rid, rider_id |-> uid,
                    status |-> "CONFIRMED", cancelled_at |-> "null"]}
             /\ reqs' = Finish(i, Success)
             /\ lock' = [lock EXCEPT ![rid] = 0]
     /\ UNCHANGED <<users, vehicles, rides, lockOrder, listing, resp, authq, mem>>

\* The insert with another status than the column default.
reserve_insert_other_status(i) ==
  LET rid == reqs[i].ride_id
      uid == reqs[i].caller
  IN /\ reqs[i].pc = "insert"
     /\ res_seq' = res_seq + 1
     /\ IF UniqueViolation(rid, uid)
        THEN /\ reservations' = reservations
             /\ reqs' = Finish(i, DuplicateReservation)
        ELSE /\ reservations' = reservations \cup
                  {[id |-> res_seq + 1, ride_id |-> rid, rider_id |-> uid,
                    status |-> "PENDING", cancelled_at |-> "null"]}
             /\ reqs' = Finish(i, Success)
     /\ lock' = [lock EXCEPT ![rid] = 0]
     /\ UNCHANGED <<users, vehicles, rides, lockOrder, listing, resp, authq, mem>>

\* The insert as an upsert: a row of the same (ride, rider) is deleted and
\* a new one put in its place.
reserve_insert_replacing(i) ==
  LET rid == reqs[i].ride_id
      uid == reqs[i].caller
      old == {r \in reservations : r.ride_id = rid /\ r.rider_id = uid}
  IN /\ reqs[i].pc = "insert"
     /\ res_seq' = res_seq + 1
     /\ reservations' = (reservations \ old) \cup
          {[id |-> res_seq + 1, ride_id |-> rid, rider_id |-> uid,
            status |-> "CONFIRMED", cancelled_at |-> "null"]}
     /\ reqs' = Finish(i, IF old = {} THEN Success ELSE DuplicateReservation)
     /\ lock' = [lock EXCEPT ![rid] = 0]
     /\ UNCHANGED <<users, vehicles, rides, lockOrder, listing, resp, authq, mem>>

\* session.add(res); session.commit(): the INSERT draws an id from the
\* sequence (kept even when the statement fails); a unique violation is
\* caught, the transaction rolled back; otherwise it commits.  Either way
\* the transaction ends and the row lock is released.
reserve_insert(i) ==
  LET rid == reqs[i].ride_id
      uid == reqs[i].caller
  IN /\ reqs[i].pc = "insert"
     /\ res_seq' = res_seq + 1
     /\ IF UniqueViolation(rid, uid)
        THEN /\ reservations' = reservations
             /\ reqs' = Finish(i, DuplicateReservation)
        ELSE /\ reservations' = reservations \cup
                  {[id |-> res_seq + 1, ride_id |-> rid, rider_id |-> uid,
                    status |-> "CONFIRMED", cancelled_at |-> "null"]}
             /\ reqs' = Finish(i, Success)
     /\ lock' = [lock EXCEPT ![rid] = 0]
     /\ UNCHANGED <<users, vehicles, rides, lockOrder, listing, resp, authq, mem>>

\* get_session returns a Session that no handler closes.  The transaction a
\* rejected reserve left open ends when the interpreter reclaims the
\* session and the pool resets the connection (rollback).
session_reclaim(i) ==
  /\ reqs[i].pc = "done"
  /\ RideExists(reqs[i].ride_id)
  /\ lock[reqs[i].ride_id] = i
  /\ lock' = [lock EXCEPT ![reqs[i].ride_id] = 0]
  /\ UNCHANGED <<users, vehicles, rides, reservations, res_seq, reqs, lockOrder, listing, resp, authq, mem>>

\* ------------------------------------------------------- ride listing
\* ride_to_full_dict: the row with seats_taken counted at this moment.
ride_to_full_dict(rid) ==
  [id |-> rid,
   departure_time |-> rides[rid].departure_time,
   seats_total |-> rides[rid].seats_total,
   seats_taken |-> ConfirmedCount(rid)]

\* out.sort(key = departure_time): a stable sort, by insertion.
RECURSIVE InsertByDeparture(_, _)
InsertByDeparture(x, sorted) ==
  IF sorted = <<>> THEN <<x>>
  ELSE IF x.departure_time < Head(sorted).departure_time THEN <<x>> \o sorted
  ELSE <<Head(sorted)>> \o InsertByDeparture(x, Tail(sorted))

RECURSIVE SortByDeparture(_)
SortByDeparture(out) ==
  IF out = <<>> THEN <<>>
  ELSE InsertByDeparture(out[Len(out)], SortByDeparture(SubSeq(out, 1, Len(out) - 1)))

\* GET /api/rides: select every ride row ...
list_start ==
  /\ listing.pc \in {"idle", "done"}
  /\ listing' = [pc |-> IF Len(rides) = 0 THEN "done" ELSE "scan",
                 n |-> Len(rides), out |-> <<>>]
  /\ UNCHANGED <<users, vehicles, rides, reservations, res_seq, lock, reqs, lockOrder, resp, authq, mem>>

\* ... then one count query per row, each its own statement; after the last
\* row the list is sorted and returned.
list_row ==
  LET out == Append(listing.out, ride_to_full_dict(Len(listing.out) + 1))
  IN /\ listing.pc = "scan"
     /\ listing' = IF Len(out) = listing.n
                   THEN [listing EXCEPT !.pc = "done", !.out = SortByDeparture(out)]
                   ELSE [listing EXCEPT !.out = out]
     /\ UNCHANGED <<users, vehicles, rides, reservations, res_seq, lock, reqs, lockOrder, resp, authq, mem>>

\* ------------------------------------------------------------- Next
\* The entity store on its own, from the empty database.
NextStore ==
  \/ \E e \in Callers, u \in 1..MaxUsers, p \in OwnsCarPayloads :
       update_user(e, u, p)
  \/ \E e \in Callers : create_vehicle(e, "null")
  \/ \E e \in Callers, d \in DepartureInputs, s \in SeatInputs, now \in Times :
       create_ride(e, d, s, now)

SpecStore == InitEmpty /\ [][NextStore]_vars

\* Identity resolution, statement by statement, beside users who set
\* owns_car in their profile.  E-mail addresses are interchangeable: a
\* token brings an address already seen or the smallest one not yet seen.
SeenEmails == {authq[k].email : k \in 1..Len(authq)}

NextAuth ==
  \/ \E e \in {x \in Emails : x <= Cardinality(SeenEmails) + 1} : auth_arrive(e)
  \/ \E i \in 1..Len(authq) : auth_select(i)
  \/ \E i \in 1..Len(authq) : auth_insert(i)
  \/ \E u \in 1..Len(users) :
       update_user(users[u].email, u, [nickname |-> "unset", owns_car |-> "true"])

SpecAuth == InitEmpty /\ [][NextAuth]_vars

\* Vehicles are registered, with and without a plate, and listed.
NextVehicles ==
  \/ \E e \in Callers, plate \in PlateInputs : create_vehicle(e, plate)
  \/ \E e \in Callers : list_vehicles(e)

SpecVehicles == InitEmpty /\ [][NextVehicles]_vars

\* The in-memory variant: vehicles are registered and listed.
NextMem ==
  \/ \E o \in 1..MaxUsers, plate \in PlateInputs : mem_create_vehicle(o, plate)
  \/ \E k \in 1..Len(mem.calls) : mem_next_load(k)
  \/ \E k \in 1..Len(mem.calls) : mem_next_store(k)
  \/ \E k \in 1..Len(mem.calls) : mem_next_return(k)
  \/ \E k \in 1..Len(mem.calls) : mem_store_vehicle(k)
  \/ \E u \in 1..MaxUsers : mem_list_vehicles(u)

SpecMem == InitEmpty /\ [][NextMem]_vars

\* The in-memory variant with one ride in _rides, as create_ride stores it
\* (seats_taken 0), and reserve calls on it or on a ride that is not there.
InitMemRide ==
  /\ users = <<>>
  /\ vehicles = <<>>
  /\ rides = <<>>
  /\ reservations = {}
  /\ res_seq = 0
  /\ lock = [rid \in RideIds |-> 0]
  /\ reqs = <<>>
  /\ lockOrder = [rid \in RideIds |-> <<>>]
  /\ listing = [pc |-> "idle", n |-> 0, out |-> <<>>]
  /\ resp = NoResponse
  /\ authq = <<>>
  /\ \E st \in 1..MaxSeats :
       mem = [MemEmpty EXCEPT
                !.rides = <<[seats_total |-> st, seats_taken |-> 0]>>]

NextMemReserve ==
  \/ \E u \in 1..MaxUsers, rid \in {1, 2} : mem_reserve(u, rid)
  \/ \E k \in 1..Len(mem.rcalls) : mem_reserve_check(k)
  \/ \E k \in 1..Len(mem.rcalls) : mem_seat_load(k)
  \/ \E k \in 1..Len(mem.rcalls) : mem_seat_store(k)
  \/ \E k \in 1..Len(mem.rcalls) : mem_res_next_load(k)
  \/ \E k \in 1..Len(mem.rcalls) : mem_res_next_store(k)
  \/ \E k \in 1..Len(mem.rcalls) : mem_res_next_return(k)
  \/ \E k \in 1..Len(mem.rcalls) : mem_reserve_insert(k)

SpecMemReserve == InitMemRide /\ [][NextMemReserve]_vars

\* Profile updates with every payload.
NextUsers ==
  \E e \in Callers, u \in 1..MaxUsers, p \in UserPayloads : update_user(e, u, p)

SpecUsers == InitEmpty /\ [][NextUsers]_vars

\* The reservation engine: rides are created and reserved concurrently.
Next ==
  \/ \E e \in Callers, d \in DepartureInputs, s \in SeatInputs, now \in Times :
       create_ride(e, d, s, now)
  \/ \E e \in Callers, rid \in RideIds : reserve_arrive(e, rid)
  \/ \E i \in 1..Len(reqs) : reserve_lock(i)
  \/ \E i \in 1..Len(reqs) : reserve_check(i)
  \/ \E i \in 1..Len(reqs) : reserve_insert(i)
  \/ \E i \in 1..Len(reqs) : session_reclaim(i)

Spec == Init /\ [][Next]_vars

\* The reservation engine with a ride listing running beside it.
NextList ==
  \/ Next
  \/ list_start
  \/ list_row

SpecList == Init /\ [][NextList]_vars

\* ------------------------------------------------- history operators
Done(i) == reqs[i].pc = "done"

Host(rid) == rides[rid].host_id

\* Requests that held the lock of ride rid before the k-th holder and were
\* granted a seat.
SeatsBefore(rid, k) ==
  Cardinality({j \in 1..(k - 1) : reqs[lockOrder[rid][j]].outcome = Success})

\* Position of request i among the lock holders of its ride (0: never held).
LockPos(i) ==
  LET ord == lockOrder[reqs[i].ride_id]
  IN IF \E k \in 1..Len(ord) : ord[k] = i
     THEN CHOOSE k \in 1..Len(ord) : ord[k] = i
     ELSE 0

\* Request i has just been answered by the step.
Answered(i) == reqs[i].pc # "done" /\ reqs'[i].pc = "done"

\* C1. Invariant B: the CONFIRMED reservations of a ride never outnumber its
\* seats_total.
C1_CapacityInvariant ==
  \A rid \in 1..Len(rides) : ConfirmedCount(rid) <= rides[rid].seats_total

\* Invariant B for the rides whose seats_total is not negative (the lock
\* does its work; only the unvalidated seats_total breaks C1).
CapacityOfValidRides ==
  \A rid \in 1..Len(rides) :
    rides[rid].seats_total >= 0 => ConfirmedCount(rid) <= rides[rid].seats_total

\* C2. More than N distinct riders, none the host, one request each on a
\* ride with seats_total = N: once all are answered exactly N succeeded and
\* every other one was rejected with RideFull.
RaceScenario(rid) ==
  LET on == {i \in 1..Len(reqs) : reqs[i].ride_id = rid}
  IN /\ on # {}
     /\ \A i \in on : Done(i) /\ reqs[i].outcome # NotFound
     /\ \A i \in on : reqs[i].caller # Host(rid)
     /\ \A i, j \in on : reqs[i].caller = reqs[j].caller => i = j
     /\ Cardinality(on) > rides[rid].seats_total

SuccessesOn(rid) ==
  {i \in 1..Len(reqs) : reqs[i].ride_id = rid /\ reqs[i].outcome = Success}

C2_ExactlyNSucceed ==
  \A rid \in 1..Len(rides) :
    RaceScenario(rid) =>
      /\ Cardinality(SuccessesOn(rid)) = rides[rid].seats_total
      /\ \A i \in 1..Len(reqs) :
           reqs[i].ride_id = rid /\ reqs[i].outcome # Success
             => reqs[i].outcome = RideFull

\* The same for the rides whose seats_total is not negative.
ExactlyNSucceedOnValidRides ==
  \A rid \in 1..Len(rides) :
    RaceScenario(rid) /\ rides[rid].seats_total >= 0 =>
      /\ Cardinality(SuccessesOn(rid)) = rides[rid].seats_total
      /\ \A i \in 1..Len(reqs) :
           reqs[i].ride_id = rid /\ reqs[i].outcome # Success
             => reqs[i].outcome = RideFull

\* C3. Invariant A: at most one reservation row, hence at most one
\* CONFIRMED reservation, per (ride, rider).
C3_OneSeatPerRider ==
  \A r1, r2 \in reservations :
    r1.ride_id = r2.ride_id /\ r1.rider_id = r2.rider_id => r1 = r2

\* A second insert for a pair that holds a row was refused by the
\* constraint.
C3_Witness ==
  \E i \in 1..Len(reqs) :
    /\ reqs[i].outcome = DuplicateReservation
    /\ \E r \in reservations :
         r.ride_id = reqs[i].ride_id /\ r.rider_id = reqs[i].caller

\* C4. The same request twice.  i is the rider's first request on the ride
\* and finds a free seat, j a later request of the same rider on it.
SameRequestTwice(i, j) ==
  LET rid == reqs[i].ride_id
  IN /\ reqs[j].ride_id = rid /\ reqs[j].caller = reqs[i].caller
     /\ Done(i) /\ Done(j)
     /\ LockPos(i) > 0 /\ LockPos(i) < LockPos(j)
     /\ reqs[i].caller # Host(rid)
     /\ \A h \in 1..Len(reqs) :
          (reqs[h].ride_id = rid /\ reqs[h].caller = reqs[i].caller /\ h # i)
            => LockPos(h) > LockPos(i)
     /\ SeatsBefore(rid, LockPos(i)) < rides[rid].seats_total

\* C4 as stated: one success and one DuplicateReservation, whatever the
\* capacity.
C4_AsStated ==
  \A i, j \in 1..Len(reqs) :
    SameRequestTwice(i, j) =>
      reqs[i].outcome = Success /\ reqs[j].outcome = DuplicateReservation

\* C4 amended: the first succeeds; the second is rejected, with
\* DuplicateReservation when the ride still has a free seat as it is
\* evaluated and with RideFull when the ride is full by then.
C4_OneSuccessOneRejection ==
  \A i, j \in 1..Len(reqs) :
    SameRequestTwice(i, j) =>
      /\ reqs[i].outcome = Success
      /\ reqs[j].outcome =
           IF SeatsBefore(reqs[i].ride_id, LockPos(j)) < rides[reqs[i].ride_id].seats_total
           THEN DuplicateReservation
           ELSE RideFull

C4_Witness ==
  \E i, j \in 1..Len(reqs) :
    SameRequestTwice(i, j) /\ reqs[j].outcome = DuplicateReservation

\* C5. The host of an existing ride is always answered
\* SelfReservationRejected, and no reservation is ever held by the host of
\* its ride (Invariant C).
InvariantC ==
  \A r \in reservations : r.rider_id # Host(r.ride_id)

C5_HostAlwaysRejected ==
  /\ []InvariantC
  /\ [][\A i \in 1..Len(reqs) :
          (/\ Answered(i)
           /\ RideExists(reqs[i].ride_id)
           /\ reqs[i].caller = Host(reqs[i].ride_id))
            => reqs'[i].outcome = SelfReservationRejected]_vars

\* The host was rejected on a ride with a free seat and on a full ride.
C5_Witness ==
  \E i, j \in 1..Len(reqs) :
    /\ reqs[i].outcome = SelfReservationRejected
    /\ reqs[j].outcome = SelfReservationRejected
    /\ SeatsBefore(reqs[i].ride_id, LockPos(i)) < rides[reqs[i].ride_id].seats_total
    /\ SeatsBefore(reqs[j].ride_id, LockPos(j)) >= rides[reqs[j].ride_id].seats_total
    /\ rides[reqs[j].ride_id].seats_total > 0

\* C6. The scenario: seats_total = 1; A, then B, then A again.
Scenario6 ==
  /\ Len(rides) >= 1 /\ rides[1].seats_total = 1
  /\ Len(reqs) = 3
  /\ \A i \in 1..3 : Done(i) /\ reqs[i].ride_id = 1 /\ reqs[i].caller # Host(1)
  /\ reqs[1].caller = reqs[3].caller /\ reqs[1].caller # reqs[2].caller
  /\ lockOrder[1] = <<1, 2, 3>>

Outcomes == [i \in 1..Len(reqs) |-> reqs[i].outcome]

\* C6 as stated: A's second request is answered DuplicateReservation.
C6_AsStated ==
  Scenario6 => Outcomes = <<Success, RideFull, DuplicateReservation>>

\* C6 amended: A's second request is answered RideFull (the seat count is
\* checked before the insert that would detect the duplicate).
C6_Scenario ==
  Scenario6 => Outcomes = <<Success, RideFull, RideFull>>

C6_Witness == Scenario6

\* C7. The answer is that of the first failing precondition, in the order
\* ride exists, rider is not the host, count < seats_total, no reservation
\* of the rider on the ride.
FirstFailing(rid, uid) ==
  IF ~RideExists(rid) THEN NotFound
  ELSE IF rides[rid].host_id = uid THEN SelfReservationRejected
  ELSE IF Cardinality({r \in reservations :
                         r.ride_id = rid /\ r.status = "CONFIRMED"})
            >= rides[rid].seats_total
       THEN RideFull
  ELSE IF \E r \in reservations : r.ride_id = rid /\ r.rider_id = uid
       THEN DuplicateReservation
  ELSE Success

C7_PreconditionOrder ==
  [][\A i \in 1..Len(reqs) :
       Answered(i) =>
         reqs'[i].outcome = FirstFailing(reqs[i].ride_id, reqs[i].caller)]_vars

\* Two preconditions failed at once and the earlier one was reported: a
\* rider holding a seat on a full ride got RideFull, the host got
\* SelfReservationRejected on a full ride.
C7_Witness ==
  /\ \E i \in 1..Len(reqs) :
       /\ reqs[i].outcome = RideFull
       /\ \E j \in 1..Len(reqs) :
            /\ reqs[j].caller = reqs[i].caller /\ reqs[j].ride_id = reqs[i].ride_id
            /\ reqs[j].outcome = Success
            /\ LockPos(j) < LockPos(i)
  /\ \E i \in 1..Len(reqs) :
       /\ reqs[i].outcome = SelfReservationRejected
       /\ SeatsBefore(reqs[i].ride_id, LockPos(i)) >= rides[reqs[i].ride_id].seats_total

\* C8. Per ride, at most one request is between the locked read and its
\* answer, and it is the holder of the row lock.
InSection(rid) ==
  {i \in 1..Len(reqs) : reqs[i].ride_id = rid /\ reqs[i].pc \in {"check", "insert"}}

C8_MutualExclusion ==
  \A rid \in RideIds :
    /\ Cardinality(InSection(rid)) <= 1
    /\ \A i \in InSection(rid) : lock[rid] = i

\* One request is in the section while another waits for the row lock.
C8_Witness ==
  \E i, j \in 1..Len(reqs) :
    /\ reqs[i].ride_id = reqs[j].ride_id
    /\ reqs[i].pc = "insert"
    /\ reqs[j].pc = "lock"
    /\ RideExists(reqs[j].ride_id)

\* C9. Serial equivalence per ride: the answers are those of running the
\* requests one after another in lock order, and each count read is the
\* number of seats granted to earlier lock holders.
SerialAnswer(rid, uid, held) ==
  IF uid = Host(rid) THEN SelfReservationRejected
  ELSE IF Cardinality(held) >= rides[rid].seats_total THEN RideFull
  ELSE IF uid \in held THEN DuplicateReservation
  ELSE Success

\* Riders seated by the first k requests of order, run one after another.
RECURSIVE SerialHeld(_, _, _)
SerialHeld(rid, order, k) ==
  IF k = 0 THEN {}
  ELSE LET before == SerialHeld(rid, order, k - 1)
           uid == reqs[order[k]].caller
       IN IF SerialAnswer(rid, uid, before) = Success
          THEN before \cup {uid}
          ELSE before

C9_SerialEquivalence ==
  \A rid \in 1..Len(rides) :
    \A k \in 1..Len(lockOrder[rid]) :
      LET i == lockOrder[rid][k]
          before == SerialHeld(rid, lockOrder[rid], k - 1)
      IN /\ Done(i) => reqs[i].outcome = SerialAnswer(rid, reqs[i].caller, before)
         /\ reqs[i].taken # <<>> => reqs[i].taken = <<Cardinality(before)>>

\* Two requests were in flight together and the later lock holder read the
\* seat the earlier one had taken.
C9_Witness ==
  \E rid \in 1..Len(rides) :
    /\ Len(lockOrder[rid]) >= 2
    /\ lockOrder[rid][1] > lockOrder[rid][2]
    /\ reqs[lockOrder[rid][1]].outcome = Success
    /\ reqs[lockOrder[rid][2]].outcome = RideFull
    /\ reqs[lockOrder[rid][2]].taken = <<1>>

\* C10. The listing never reports seats_taken above seats_total.
C10_ListingWithinCapacity ==
  \A k \in 1..Len(listing.out) :
    listing.out[k].seats_taken <= listing.out[k].seats_total

\* The same for the rides whose seats_total is not negative.
ListingOfValidRides ==
  \A k \in 1..Len(listing.out) :
    listing.out[k].seats_total >= 0
      => listing.out[k].seats_taken <= listing.out[k].seats_total

\* C12. An insert that meets a row of the same (ride, rider) is answered
\* DuplicateReservation, ends the transaction (the row lock is released)
\* and leaves the reservations as they were.
C12_DuplicateRolledBack ==
  [][\A i \in 1..Len(reqs) :
       (/\ reqs[i].pc = "insert"
        /\ reqs'[i].pc # "insert"
        /\ \E r \in reservations : /\ r.ride_id = reqs[i].ride_id
                                   /\ r.rider_id = reqs[i].caller)
         => /\ reqs'[i].outcome = DuplicateReservation
            /\ reservations' = reservations
            /\ lock'[reqs[i].ride_id] = 0]_vars

\* A request was answered DuplicateReservation: its insert drew an id that
\* no row carries, and the ride's row is unlocked again.
C12_Witness ==
  \E i \in 1..Len(reqs) :
    /\ reqs[i].outcome = DuplicateReservation
    /\ lock[reqs[i].ride_id] = 0
    /\ res_seq > Cardinality(reservations)

\* ---------------------------------------------------------- create_ride
\* The responses of create_ride that are validation failures (HTTP 400).
ValidationFailed ==
  {"400 own a car", "400 add your car", "400 departure in the past"}

\* What a create_ride step by caller e with departure d at clock now must
\* satisfy: a ride is inserted only for a caller who owns a car, has a
\* vehicle and sends a departure that is not in the past; a caller without
\* owns_car and a past departure are answered with a validation failure;
\* a rejected request inserts nothing.
CreateRideContract(e, d, now) ==
  LET tbl == Provisioned(e)
      uid == UserIdOf(tbl, e)
      owns == tbl[uid].owns_car
      hasVehicle == \E v \in 1..Len(vehicles) : vehicles[v].owner_id = uid
  IN /\ rides' # rides => (owns /\ hasVehicle /\ d.t >= now)
     /\ ~owns => (resp'.status \in ValidationFailed /\ rides' = rides)
     /\ d.t < now => (resp'.status \in ValidationFailed /\ rides' = rides)
     /\ resp'.status # "ok" => rides' = rides

\* C13. Every create_ride step keeps the contract above.
C13_CreateRidePreconditions ==
  [][\A e \in Callers, d \in DepartureInputs, s \in SeatInputs, now \in Times :
       create_ride(e, d, s, now) => CreateRideContract(e, d, now)]_vars

\* The same for payloads whose departure_time carries no UTC offset.
CreateRideOnNaiveTimes ==
  [][\A e \in Callers, d \in DepartureInputs, s \in SeatInputs, now \in Times :
       (create_ride(e, d, s, now) /\ ~d.aware) => CreateRideContract(e, d, now)]_vars

\* C14. Every stored ride has seats_total >= 1.
C14_SeatsTotalPositive ==
  \A rid \in 1..Len(rides) : rides[rid].seats_total >= 1

\* The other half of C14: a stored ride keeps its seats_total.
SeatsTotalFixed ==
  [][\A rid \in 1..Len(rides) :
       /\ rid <= Len(rides')
       /\ rides'[rid].seats_total = rides[rid].seats_total]_vars

\* C15. Every stored ride references a vehicle row that exists and whose
\* owner is the ride's host.
C15_RideVehicleOwnedByHost ==
  \A rid \in 1..Len(rides) :
    /\ rides[rid].vehicle_id \in 1..Len(vehicles)
    /\ vehicles[rides[rid].vehicle_id].owner_id = rides[rid].host_id

\* A ride was created while another user's vehicle was in the table too.
C15_Witness ==
  \E rid \in 1..Len(rides), v \in 1..Len(vehicles) :
    vehicles[v].owner_id # rides[rid].host_id

\* ------------------------------------------------------- provisioning
\* The rows of the user table that carry e-mail e.
RowsOf(e) == {u \in 1..Len(users) : users[u].email = e}

\* Call j arrived after call i had returned, with the same e-mail.
InSequence(i, j) ==
  /\ i \in authq[j].prior
  /\ authq[i].email = authq[j].email

\* A step of call i that finds its e-mail in the table returns that row's
\* id and writes nothing; a step that inserts for an e-mail not in the
\* table appends exactly one row, with role RIDER and owns_car false, and
\* returns its id.
ResolveStep(i) ==
  LET e == authq[i].email
  IN /\ (authq[i].pc = "select" /\ authq'[i].pc # "select" /\ RowsOf(e) # {})
        => /\ authq'[i].pc = "done"
           /\ authq'[i].error = "none"
           /\ authq'[i].id \in RowsOf(e)
           /\ users' = users
     /\ (authq[i].pc = "select" /\ authq'[i].pc # "select" /\ RowsOf(e) = {})
        => users' = users
     /\ (authq[i].pc = "insert" /\ authq'[i].pc # "insert" /\ RowsOf(e) = {})
        => /\ Len(users') = Len(users) + 1
           /\ SubSeq(users', 1, Len(users)) = users
           /\ users'[Len(users')].email = e
           /\ users'[Len(users')].role = "RIDER"
           /\ users'[Len(users')].owns_car = FALSE
           /\ authq'[i].pc = "done"
           /\ authq'[i].error = "none"
           /\ authq'[i].id = Len(users')

\* C16. Provisioning is idempotent by e-mail: every resolving step is as
\* ResolveStep says, and a call made after a call with the same e-mail has
\* returned an id returns the same id, with one row for that e-mail.
C16_ProvisioningIdempotent ==
  /\ [](\A j \in 1..Len(authq) : \A i \in 1..Len(authq) :
         (/\ authq[j].pc = "done"
          /\ InSequence(i, j)
          /\ authq[i].error = "none")
           => /\ authq[j].error = "none"
              /\ authq[j].id = authq[i].id
              /\ Cardinality(RowsOf(authq[j].email)) = 1)
  /\ [][\A i \in 1..Len(authq) : ResolveStep(i)]_vars

\* The same e-mail was resolved twice in sequence, to a row whose owner
\* had set owns_car in between or before.
C16_Witness ==
  \E j \in 1..Len(authq) : \E i \in 1..Len(authq) :
    /\ authq[j].pc = "done"
    /\ InSequence(i, j)
    /\ authq[i].error = "none"
    /\ authq[j].id = authq[i].id
    /\ users[authq[j].id].owns_car

\* Calls i and j carried the same e-mail and overlapped: neither had
\* returned when the other arrived.
Concurrent(i, j) ==
  /\ i # j
  /\ authq[i].email = authq[j].email
  /\ i \notin authq[j].prior
  /\ j \notin authq[i].prior

\* C17. Two concurrent calls with the same e-mail leave at most one row
\* for it, both return the same id, and neither ends in a store error.
C17_RaceRecovered ==
  \A i \in 1..Len(authq) : \A j \in 1..Len(authq) :
    (Concurrent(i, j) /\ authq[i].pc = "done" /\ authq[j].pc = "done")
      => /\ Cardinality(RowsOf(authq[i].email)) <= 1
         /\ authq[i].error = "none"
         /\ authq[j].error = "none"
         /\ authq[i].id = authq[j].id

\* The part of C17 the unique constraint gives: one row per e-mail.
OneRowPerEmail ==
  \A u \in 1..Len(users) : \A v \in 1..Len(users) :
    users[u].email = users[v].email => u = v

\* ---------------------------------------------------------- update_user
\* What an update_user step by caller e on user_id with payload p must
\* satisfy.  A caller other than user_id is answered 403 and no record
\* changes.  Otherwise the fields the payload carries take its values (an
\* explicit null leaves the field without a value), the fields it leaves
\* out keep theirs, and no other user's record changes.
PartialUpdate(e, user_id, p) ==
  LET tbl == Provisioned(e)
      c == UserIdOf(tbl, e)
  IN IF c # user_id
     THEN /\ resp'.status = "403"
          /\ users' = tbl
     ELSE /\ Len(users') = Len(tbl)
          /\ \A k \in 1..Len(tbl) : k # user_id => users'[k] = tbl[k]
          /\ users'[user_id].email = tbl[user_id].email
          /\ users'[user_id].role = tbl[user_id].role
          /\ users'[user_id].nickname =
               IF p.nickname = "unset" THEN tbl[user_id].nickname ELSE p.nickname
          /\ p.owns_car = "unset"
               => users'[user_id].owns_car = tbl[user_id].owns_car
          /\ p.owns_car \in {"true", "false"}
               => users'[user_id].owns_car = (p.owns_car = "true")
          /\ p.owns_car = "null" => users'[user_id].owns_car \notin BOOLEAN

\* C18. Every update_user step is a partial update in this sense.
C18_PartialUpdate ==
  [][\A e \in Callers, u \in 1..MaxUsers, p \in UserPayloads :
       update_user(e, u, p) => PartialUpdate(e, u, p)]_vars

\* The same for payloads that do not carry owns_car: null.
PartialUpdateWithoutNullOwnsCar ==
  [][\A e \in Callers, u \in 1..MaxUsers, p \in UserPayloads :
       (update_user(e, u, p) /\ p.owns_car # "null")
         => PartialUpdate(e, u, p)]_vars

\* -------------------------------------------------------- list_vehicles
\* C19. list_vehicles for caller U returns exactly the stored vehicles
\* whose owner_id is U (so a vehicle U created is in U's next listing as
\* create_vehicle returned it, and in nobody else's).  Stated for the
\* in-memory variant.
C19_ListVehiclesOfCaller ==
  [][\A u \in 1..MaxUsers :
       mem_list_vehicles(u)
         => mem'.listed.out = {v \in mem.vehicles : v.owner_id = u}]_vars

\* The same for the database variant: the listing is exactly the caller's
\* rows, and a vehicle the caller was just answered with is among them,
\* field for field.
ListVehiclesOfCallerDB ==
  [][\A e \in Callers :
       list_vehicles(e)
         => LET uid == UserIdOf(Provisioned(e), e)
                out == {resp'.body[k] : k \in 1..Len(resp'.body)}
                own == {v \in 1..Len(vehicles) : vehicles[v].owner_id = uid}
            IN /\ out = {vehicle_to_dict(v) : v \in own}
               /\ (resp.status = "201" /\ resp.body[1].owner_id = uid)
                    => resp.body[1] \in out
               /\ (resp.status = "201" /\ resp.body[1].owner_id # uid)
                    => resp.body[1] \notin out]_vars

\* ------------------------------------------------------- create_vehicle
\* Owner uid has a row with plate.
HasPlate(uid, plate) ==
  \E v \in 1..Len(vehicles) : /\ vehicles[v].owner_id = uid
                              /\ vehicles[v].license_plate = plate

\* C20. No two vehicles share (owner_id, non-null license_plate); a
\* create_vehicle for a non-null plate its owner already has fails with
\* the constraint violation and leaves the vehicles as they were; a
\* create_vehicle without a plate is never refused.
C20_PlateUniquePerOwner ==
  /\ [](\A v \in 1..Len(vehicles) : \A w \in 1..Len(vehicles) :
         (/\ vehicles[v].owner_id = vehicles[w].owner_id
          /\ vehicles[v].license_plate = vehicles[w].license_plate
          /\ vehicles[v].license_plate # "null") => v = w)
  /\ [][\A e \in Callers, plate \in PlateInputs :
         create_vehicle(e, plate)
           => LET uid == UserIdOf(Provisioned(e), e)
              IN /\ (plate # "null" /\ HasPlate(uid, plate))
                      => /\ resp'.status = "500 IntegrityError"
                         /\ vehicles' = vehicles
                 /\ plate = "null"
                      => /\ resp'.status = "201"
                         /\ vehicles' = Append(vehicles,
                              [owner_id |-> uid, license_plate |-> "null"])]_vars

\* A create_vehicle was refused for an owner who has a plated vehicle and
\* one without a plate.
C20_Witness ==
  /\ resp.status = "500 IntegrityError"
  /\ \E uid \in 1..Len(users) : HasPlate(uid, "p1") /\ HasPlate(uid, "null")

\* --------------------------------------------------------- lock release
\* C21. A request that has been answered, whatever the outcome, no longer
\* holds the row lock of any ride.
C21_LockReleasedOnEveryOutcome ==
  \A i \in 1..Len(reqs) :
    Done(i) => \A rid \in DOMAIN lock : lock[rid] # i

\* The same for the outcomes reached through commit or rollback, and for
\* NotFound, where no row was locked.
LockReleasedAfterInsertOrNotFound ==
  \A i \in 1..Len(reqs) :
    (Done(i) /\ reqs[i].outcome \in {Success, DuplicateReservation, NotFound})
      => \A rid \in DOMAIN lock : lock[rid] # i

\* The handler threads keep running; nothing is assumed about when the
\* interpreter reclaims an abandoned session.
SpecFair ==
  /\ Spec
  /\ WF_vars(\E i \in 1..Len(reqs) : reserve_lock(i))
  /\ WF_vars(\E i \in 1..Len(reqs) : reserve_check(i))
  /\ WF_vars(\E i \in 1..Len(reqs) : reserve_insert(i))

\* The same with sessions reclaimed eventually.
SpecFairReclaim ==
  /\ SpecFair
  /\ WF_vars(\E i \in 1..Len(reqs) : session_reclaim(i))

\* Every request that has arrived is answered in the end.
EveryRequestAnswered ==
  \A i \in 1..MaxReq : [](Len(reqs) >= i => <>(Len(reqs) >= i /\ Done(i)))

\* ------------------------------------------------------------ two rides
\* The reservation engine on two rides of the same host, already created,
\* the first with one seat and the second with two; requests name either
\* ride or a ride that does not exist.
TwoRides == {1, 2}
RideInputsTwo == {1, 2, 3}

InitTwo ==
  /\ users = <<[NewUser(1) EXCEPT !.owns_car = TRUE]>>
  /\ vehicles = <<[owner_id |-> 1, license_plate |-> "null"]>>
  /\ rides = [rid \in TwoRides |-> [host_id |-> 1, vehicle_id |-> 1,
                                    departure_time |-> 1, seats_total |-> rid]]
  /\ reservations = {}
  /\ res_seq = 0
  /\ lock = [rid \in TwoRides |-> 0]
  /\ reqs = <<>>
  /\ lockOrder = [rid \in TwoRides |-> <<>>]
  /\ listing = [pc |-> "idle", n |-> 0, out |-> <<>>]
  /\ resp = NoResponse
  /\ authq = <<>>
  /\ mem = MemEmpty

NextTwo ==
  \/ \E e \in Callers, rid \in RideInputsTwo : reserve_arrive(e, rid)
  \/ \E i \in 1..Len(reqs) : reserve_lock(i)
  \/ \E i \in 1..Len(reqs) : reserve_check(i)
  \/ \E i \in 1..Len(reqs) : reserve_insert(i)
  \/ \E i \in 1..Len(reqs) : session_reclaim(i)

SpecTwo == InitTwo /\ [][NextTwo]_vars

\* C11. The lock is per ride: a request standing at the locked read of a
\* ride whose row no request on that ride has locked can take its step,
\* whatever requests on other rides are doing; reserve takes no lock that
\* spans rides.
C11_LockScopedToRide ==
  \A i \in 1..Len(reqs) :
    (/\ reqs[i].pc = "lock"
     /\ RideExists(reqs[i].ride_id)
     /\ \A j \in 1..Len(reqs) :
          reqs[j].ride_id = reqs[i].ride_id => lock[reqs[i].ride_id] # j)
      => ENABLED reserve_lock(i)

\* Requests on the two rides are inside their sections at the same time.
C11_Witness ==
  \E i, j \in 1..Len(reqs) :
    /\ reqs[i].ride_id # reqs[j].ride_id
    /\ reqs[i].pc \in {"check", "insert"}
    /\ reqs[j].pc \in {"check", "insert"}

\* ------------------------------------------------------ effect of reserve
\* The CONFIRMED count of ride rid after the step.
ConfirmedCountAfter(rid) ==
  Cardinality({r \in reservations' : r.ride_id = rid /\ r.status = "CONFIRMED"})

\* C22. A step of reserve, from the locked read on, leaves rides, users
\* and vehicles alone and removes or alters no reservation.  The step that
\* answers Success adds exactly one row, CONFIRMED, for the request's ride
\* and rider, raising that ride's count by one and no other ride's; every
\* other step adds no row.
C22_EffectOfReserve ==
  [][\A i \in 1..Len(reqs) :
       reqs'[i] # reqs[i]
         => /\ UNCHANGED <<rides, users, vehicles>>
            /\ reservations \subseteq reservations'
            /\ IF Answered(i) /\ reqs'[i].outcome = Success
               THEN /\ \E r \in reservations' \ reservations :
                         /\ reservations' = reservations \cup {r}
                         /\ r.ride_id = reqs[i].ride_id
                         /\ r.rider_id = reqs[i].caller
                         /\ r.status = "CONFIRMED"
                    /\ \A rid \in DOMAIN rides :
                         ConfirmedCountAfter(rid) =
                           IF rid = reqs[i].ride_id
                           THEN ConfirmedCount(rid) + 1
                           ELSE ConfirmedCount(rid)
               ELSE reservations' = reservations]_vars

\* Both rides carry a reservation and a request has been rejected.
C22_Witness ==
  /\ \A rid \in TwoRides : ConfirmedCount(rid) >= 1
  /\ \E i \in 1..Len(reqs) :
       Done(i) /\ reqs[i].outcome \in {RideFull, DuplicateReservation, NotFound}

\* -------------------------------------------------------- no cancellation
\* C23. Every reservation is CONFIRMED and carries no cancellation time;
\* no step removes a reservation or lowers the CONFIRMED count of a ride.
C23_NoCancellation ==
  /\ [](\A r \in reservations :
         r.status = "CONFIRMED" /\ r.cancelled_at = "null")
  /\ [][/\ reservations \subseteq reservations'
        /\ \A rid \in DOMAIN rides :
             ConfirmedCountAfter(rid) >= ConfirmedCount(rid)]_vars

\* A ride with two seats is full, and requests were turned away for the
\* existing row and for the full ride.
C23_Witness ==
  /\ \E rid \in DOMAIN rides :
       rides[rid].seats_total >= 2 /\ ConfirmedCount(rid) = rides[rid].seats_total
  /\ \E i \in 1..Len(reqs) : reqs[i].outcome = DuplicateReservation

\* ------------------------------------------- races, in-memory variant
\* The reserve calls that are past the full check and have not stored
\* their reservation yet.
MemInFlight ==
  {k \in 1..Len(mem.rcalls) : mem.rcalls[k].pc \notin {"check", "done"}}

MemStored(rid) == {r \in mem.reservations : r.ride_id = rid}

\* C24. In the in-memory variant, whenever no reserve call stands between
\* the full check and its insert, the ride's seats_taken equals the number
\* of stored reservations for it and does not exceed seats_total, and the
\* ids _next handed to the calls are pairwise distinct.
C24_MemCounterConsistent ==
  MemInFlight = {}
    => /\ \A rid \in 1..Len(mem.rides) :
            /\ mem.rides[rid].seats_taken = Cardinality(MemStored(rid))
            /\ mem.rides[rid].seats_taken <= mem.rides[rid].seats_total
       /\ \A k \in 1..Len(mem.rcalls) : \A l \in 1..Len(mem.rcalls) :
            (/\ k # l
             /\ mem.rcalls[k].outcome = Success
             /\ mem.rcalls[l].outcome = Success)
              => mem.rcalls[k].res_id # mem.rcalls[l].res_id

\* The same calls made one after the other: a call arrives only when
\* every earlier one has returned.
NextMemSerial ==
  /\ NextMemReserve
  /\ Len(mem'.rcalls) > Len(mem.rcalls)
       => \A k \in 1..Len(mem.rcalls) : mem.rcalls[k].pc = "done"

SpecMemSerial == InitMemRide /\ [][NextMemSerial]_vars

\* "SpecStore never reaches the populated store Init starts from": TLC
\* refutes it, with the trace that builds that store.
InitStoreUnreached ==
  ~ (/\ users = <<[NewUser(1) EXCEPT !.owns_car = TRUE]>>
     /\ vehicles = <<[owner_id |-> 1, license_plate |-> "null"]>>
     /\ rides = <<>>)

=============================================================================
